---- MODULE Spec2Model ----
(***************************************************************************)
(* OogaBooga ledger contract: the opcode dispatcher (test-mode             *)
(* AlkaneResponder::execute, src/src/test_utils.rs) over the storage-backed *)
(* ledger operations of OogaBoogaContract (src/src/lib.rs).                *)
(*                                                                         *)
(* Scaling.  A stored value is a u128 written as 16 little-endian bytes.   *)
(* The model keeps the encoding and the fixed width but scales both: a     *)
(* value is ValueBytes bytes of radix ByteRadix, so the largest value is   *)
(* U128Max = ByteRadix^ValueBytes - 1 and arithmetic is modulo Modulus.    *)
(* Tokens and addresses are sequences of one-character strings.            *)
(*                                                                         *)
(* The plain + and - of lib.rs lines 90, 106, 110 and 111 are outside      *)
(* checked_add: when a result leaves the u128 range the build decides      *)
(* between a panic (overflow checks on) and a wrap-around (off).  The      *)
(* build is fixed for a run and both are explored.                         *)
(***************************************************************************)
EXTENDS Integers, Sequences, FiniteSets, TLC

VARIABLES
    storage,          \* MOCK_STORAGE: key -> stored bytes (a partial map)
    overflow_checks,  \* the build: TRUE panics on +/- overflow, FALSE wraps
    context,          \* CONTEXT of the last call: inputs and incoming buffer
    pre,              \* storage as it was when the last call began
    result,           \* how the last call ended: status, error, data, alkanes, trace
    hist,             \* what kind of call sequence led here
    claims,           \* successful claim_ooga calls so far (caps the run)
    written,          \* key -> the value last handed to set_value for it
    tally,            \* address -> successful claims and exchanges so far
    script            \* which calls were made so far, whatever their outcome

vars ==
    <<storage, overflow_checks, context, pre, result, hist, claims, written, tally, script>>

---------------------------------------------------------------------------
(* Bounds and scaled widths *)

\* bytes of a stored value (16 in the source, scaled)
ValueBytes == 2

\* values a byte can take (256 in the source, scaled)
ByteRadix == 2

\* successful claims explored in one run
MaxClaims == 4

RECURSIVE Pow(_, _)
Pow(b, n) == IF n = 0 THEN 1 ELSE b * Pow(b, n - 1)

Modulus == Pow(ByteRadix, ValueBytes)
U128Max == Modulus - 1

Byte == 0 .. (ByteRadix - 1)

---------------------------------------------------------------------------
(* Strings *)

RECURSIVE Join(_)
\* format!("{}", address): the characters of a token as one string
Join(chars) == IF chars = <<>> THEN "" ELSE chars[1] \o Join(Tail(chars))

Addresses == { <<"a">>, <<"b">> }

---------------------------------------------------------------------------
(* StoragePointer: get_value / set_value over the key/value store *)

\* the same bytes, most significant first
to_be_bytes(v) ==
    [i \in 1 .. ValueBytes |-> (v \div Pow(ByteRadix, ValueBytes - i)) % ByteRadix]

to_le_bytes(v) ==
    [i \in 1 .. ValueBytes |-> (v \div Pow(ByteRadix, i - 1)) % ByteRadix]

RECURSIVE from_be_bytes(_)
\* the same bytes read most significant first
from_be_bytes(bytes) ==
    IF bytes = <<>> THEN 0
    ELSE bytes[1] * Pow(ByteRadix, Len(bytes) - 1) + from_be_bytes(Tail(bytes))

RECURSIVE from_le_bytes(_)
from_le_bytes(bytes) ==
    IF bytes = <<>> THEN 0 ELSE bytes[1] + ByteRadix * from_le_bytes(Tail(bytes))

\* a read that decodes whatever bytes are stored, however few
get_value_any_length(st, key) ==
    IF key \in DOMAIN st
    THEN from_le_bytes(SubSeq(st[key], 1, IF Len(st[key]) < ValueBytes
                                          THEN Len(st[key]) ELSE ValueBytes))
    ELSE 0

get_value(st, key) ==
    IF key \in DOMAIN st
    THEN IF Len(st[key]) >= ValueBytes
         THEN from_le_bytes(SubSeq(st[key], 1, ValueBytes))
         ELSE 0
    ELSE 0

\* an insert that keeps the value a key already has
set_value_if_absent(st, key, value) ==
    IF key \in DOMAIN st THEN st
    ELSE [k \in (DOMAIN st) \cup {key} |-> IF k = key THEN to_le_bytes(value) ELSE st[k]]

set_value(st, key, value) ==
    [k \in (DOMAIN st) \cup {key} |-> IF k = key THEN to_le_bytes(value) ELSE st[k]]

---------------------------------------------------------------------------
(* Storage pointers, getters, setters of OogaBoogaContract *)

\* one key for every address: the address is left out of the key
ooga_balance_pointer_shared(address) == "/ooga-balance/"

ooga_balance_pointer(address) == "/ooga-balance/" \o Join(address)

\* the BOOGA pointer built from the OOGA prefix
booga_balance_pointer_ooga_prefix(address) == "/ooga-balance/" \o Join(address)

booga_balance_pointer(address) == "/booga-balance/" \o Join(address)
total_ooga_pointer == "/total-ooga"
total_booga_pointer == "/total-booga"

ooga_balance_of(st, address) == get_value(st, ooga_balance_pointer(address))
booga_balance_of(st, address) == get_value(st, booga_balance_pointer(address))
total_ooga(st) == get_value(st, total_ooga_pointer)
total_booga(st) == get_value(st, total_booga_pointer)

set_ooga_balance(st, address, amount) == set_value(st, ooga_balance_pointer(address), amount)
set_booga_balance(st, address, amount) == set_value(st, booga_balance_pointer(address), amount)
set_total_ooga(st, amount) == set_value(st, total_ooga_pointer, amount)
set_total_booga(st, amount) == set_value(st, total_booga_pointer, amount)

---------------------------------------------------------------------------
(* Outcomes of a call.  trace lists the storage accesses in program order, *)
(* a write with the value handed to set_value; wrapped says that a + or -  *)
(* left the u128 range and wrapped around.                                 *)

Get(key) == <<"get", key>>
Set(key, value) == <<"set", key, value>>

NoAlkanes == << <<>>, <<>> >>

None == -1

Ok(st, data, trace, wrapped) ==
    [storage |-> st, status |-> "ok", error |-> "", data |-> data, alkanes |-> NoAlkanes,
     trace |-> trace, wrapped |-> wrapped]
Err(st, msg, trace) ==
    [storage |-> st, status |-> "err", error |-> msg, data |-> <<>>, alkanes |-> NoAlkanes,
     trace |-> trace, wrapped |-> FALSE]
\* an overflow-checked + or - aborted the call; the writes made so far stay
Panic(st, trace) ==
    [storage |-> st, status |-> "panic", error |-> "arithmetic overflow", data |-> <<>>,
     alkanes |-> NoAlkanes, trace |-> trace, wrapped |-> FALSE]

\* x + 1 and x - 1 on u128 with the plain operators: outside the range the
\* build decides, a panic (overflow checks on) or a wrap-around (off)
AddOverflows(x) == x + 1 > U128Max
SubOverflows(x) == x - 1 < 0
Wrap(x) == (x + Modulus) % Modulus

---------------------------------------------------------------------------
(* Token operations *)

\* u128::checked_add: None when the sum leaves the range
checked_add(x, y) == IF x + y > U128Max THEN None ELSE x + y

\* the balance test of exchange_ooga_for_booga
InsufficientBalance_never(ooga_balance) == ooga_balance < 0
InsufficientBalance(ooga_balance) == ooga_balance < 1

claim_ooga_no_total(st, checks, address) ==
    LET current_balance == ooga_balance_of(st, address)
        new_balance == checked_add(current_balance, 1)
        t1 == << Get(ooga_balance_pointer(address)) >>
    IN  IF new_balance = None
        THEN Err(st, "balance overflow", t1)
        ELSE Ok(set_ooga_balance(st, address, new_balance), <<>>,
                Append(t1, Set(ooga_balance_pointer(address), new_balance)), FALSE)

claim_ooga(st, checks, address) ==
    LET current_balance == ooga_balance_of(st, address)
        new_balance == checked_add(current_balance, 1)
        t1 == << Get(ooga_balance_pointer(address)) >>
    IN  IF new_balance = None
        THEN Err(st, "balance overflow", t1)
        ELSE
          LET total == total_ooga(st)
              t2 == Append(t1, Get(total_ooga_pointer))
          IN  IF AddOverflows(total) /\ checks
              THEN Panic(st, t2)
              ELSE
                LET st1 == set_total_ooga(st, Wrap(total + 1))
                    st2 == set_ooga_balance(st1, address, new_balance)
                IN  Ok(st2, <<>>,
                       t2 \o << Set(total_ooga_pointer, Wrap(total + 1)),
                                 Set(ooga_balance_pointer(address), new_balance) >>,
                       AddOverflows(total))

exchange_ooga_for_booga(st, checks, address) ==
    LET ooga_balance == ooga_balance_of(st, address)
        t1 == << Get(ooga_balance_pointer(address)) >>
    IN  IF InsufficientBalance(ooga_balance)
        THEN Err(st, "insufficient OOGA balance", t1)
        ELSE
          LET booga_balance == booga_balance_of(st, address)
              t2 == Append(t1, Get(booga_balance_pointer(address)))
              st1 == set_ooga_balance(st, address, Wrap(ooga_balance - 1))
              t3 == Append(t2, Set(ooga_balance_pointer(address), Wrap(ooga_balance - 1)))
          IN  IF SubOverflows(ooga_balance) /\ checks
              THEN Panic(st, t2)
              ELSE IF AddOverflows(booga_balance) /\ checks
              THEN Panic(st1, t3)
              ELSE
                LET st2 == set_booga_balance(st1, address, Wrap(booga_balance + 1))
                    t4 == Append(t3, Set(booga_balance_pointer(address),
                                         Wrap(booga_balance + 1)))
                    total_o == total_ooga(st2)
                    total_b == total_booga(st2)
                    t5 == t4 \o << Get(total_ooga_pointer), Get(total_booga_pointer) >>
                IN  IF SubOverflows(total_o) /\ checks
                    THEN Panic(st2, t5)
                    ELSE
                      LET st3 == set_total_ooga(st2, Wrap(total_o - 1))
                          t6 == Append(t5, Set(total_ooga_pointer, Wrap(total_o - 1)))
                      IN  IF AddOverflows(total_b) /\ checks
                          THEN Panic(st3, t6)
                          ELSE Ok(set_total_booga(st3, Wrap(total_b + 1)), <<>>,
                                  Append(t6, Set(total_booga_pointer, Wrap(total_b + 1))),
                                  \/ SubOverflows(ooga_balance)
                                  \/ AddOverflows(booga_balance)
                                  \/ SubOverflows(total_o)
                                  \/ AddOverflows(total_b))

---------------------------------------------------------------------------
(* Input tokens *)

\* largest opcode value a u8 holds
U8Max == 255

DigitValue(c) ==
    CASE c = "0" -> 0 [] c = "1" -> 1 [] c = "2" -> 2 [] c = "3" -> 3 [] c = "4" -> 4
      [] c = "5" -> 5 [] c = "6" -> 6 [] c = "7" -> 7 [] c = "8" -> 8 [] c = "9" -> 9
      [] OTHER -> None

RECURSIVE ParseDigits(_, _)
\* the decimal value of digits, accumulated left to right; None on a
\* character that is no digit or on a value above U8Max
ParseDigits(digits, acc) ==
    IF digits = <<>> THEN acc
    ELSE LET d == DigitValue(digits[1])
         IN  IF d = None \/ acc * 10 + d > U8Max
             THEN None
             ELSE ParseDigits(Tail(digits), acc * 10 + d)

\* a parse whose failure is replaced by 0 instead of being reported
parse_u8_or_zero(token) ==
    LET digits == IF token # <<>> /\ token[1] = "+" THEN Tail(token) ELSE token
        parsed == IF digits = <<>> THEN None ELSE ParseDigits(digits, 0)
    IN  IF parsed = None THEN 0 ELSE parsed

\* str::parse::<u8>(): an optional "+", then at least one decimal digit
parse_u8(token) ==
    LET digits == IF token # <<>> /\ token[1] = "+" THEN Tail(token) ELSE token
    IN  IF digits = <<>> THEN None ELSE ParseDigits(digits, 0)

\* the token is taken from the end of the list, as Vec::pop does
shift_pop(v) ==
    IF v = <<>> THEN [some |-> FALSE, value |-> <<>>, rest |-> <<>>]
    ELSE [some |-> TRUE, value |-> v[Len(v)], rest |-> SubSeq(v, 1, Len(v) - 1)]

\* Option<T>: some = FALSE is None; otherwise the first token and the rest
shift(v) ==
    IF v = <<>> THEN [some |-> FALSE, value |-> <<>>, rest |-> <<>>]
    ELSE [some |-> TRUE, value |-> Head(v), rest |-> Tail(v)]

\* an exhausted list yields an empty token instead of the error
shift_or_default(v) ==
    IF v = <<>> THEN [some |-> TRUE, value |-> <<>>, rest |-> <<>>] ELSE shift(v)

\* some = FALSE stands for Err(ExhaustedMsg)
shift_or_err(v) == shift(v)

ExhaustedMsg == "expected value in list but list is exhausted"

\* CallResponse::forward of the test build: nothing is carried over
forward(incoming_alkanes) == NoAlkanes

---------------------------------------------------------------------------
(* AlkaneResponder::execute, test build *)

\* opcode 0 with the second reset left out
initialize_ooga_only(st) ==
    Ok(set_total_ooga(st, 0), <<>>, << Set(total_ooga_pointer, 0) >>, FALSE)

\* opcode 0: both totals are set to 0, nothing else is touched
initialize(st) ==
    Ok(set_total_booga(set_total_ooga(st, 0), 0), <<>>,
       << Set(total_ooga_pointer, 0), Set(total_booga_pointer, 0) >>, FALSE)

\* a query that stores the value it read back under its key
query_storing(st, key, value) ==
    Ok(set_value(st, key, value), to_le_bytes(value), << Get(key), Set(key, value) >>, FALSE)

\* opcodes 3 to 6: response.data = value.to_le_bytes().to_vec(); storage stays
query(st, key, value) == Ok(st, to_le_bytes(value), << Get(key) >>, FALSE)

\* a default arm that lets the call pass as a no-op
unrecognized_opcode_ignored(st) == Ok(st, <<>>, <<>>, FALSE)

\* the default arm of the match
unrecognized_opcode(st) == Err(st, "unrecognized opcode", <<>>)

\* the match on the opcode: the outcome before the response is attached
dispatch(st, checks, inputs) ==
    LET first == shift_or_err(inputs)
    IN  IF ~first.some THEN Err(st, ExhaustedMsg, <<>>)
        ELSE
          LET opcode == parse_u8(first.value)
              operand == shift_or_err(first.rest)
          IN  IF opcode = None THEN Err(st, "invalid opcode format", <<>>)
              ELSE CASE opcode = 0 -> initialize(st)
                     [] opcode = 1 ->
                          IF ~operand.some THEN Err(st, ExhaustedMsg, <<>>)
                          ELSE claim_ooga(st, checks, operand.value)
                     [] opcode = 2 ->
                          IF ~operand.some THEN Err(st, ExhaustedMsg, <<>>)
                          ELSE exchange_ooga_for_booga(st, checks, operand.value)
                     [] opcode = 3 ->
                          IF ~operand.some THEN Err(st, ExhaustedMsg, <<>>)
                          ELSE query(st, ooga_balance_pointer(operand.value),
                                     ooga_balance_of(st, operand.value))
                     [] opcode = 4 ->
                          IF ~operand.some THEN Err(st, ExhaustedMsg, <<>>)
                          ELSE query(st, booga_balance_pointer(operand.value),
                                     booga_balance_of(st, operand.value))
                     [] opcode = 5 -> query(st, total_ooga_pointer, total_ooga(st))
                     [] opcode = 6 -> query(st, total_booga_pointer, total_booga(st))
                     [] OTHER -> unrecognized_opcode(st)

\* Ok(response): a successful call returns the response built by forward()
Respond(r, response) == [r EXCEPT !.alkanes = IF r.status = "ok" THEN response ELSE @]

execute(st, checks, inputs, incoming_alkanes) ==
    Respond(dispatch(st, checks, inputs), forward(incoming_alkanes))

---------------------------------------------------------------------------
(* The state machine: one call at a time, each run to completion.  A call  *)
(* leaves its record (context, pre, result) until the caller takes the     *)
(* response; then the next call can be made.                               *)

\* the call sequence so far: "fresh" none yet; "clean" began with a
\* successful initialize(), every call succeeded, no later initialize();
\* "reinit" the same with a later initialize(); "other" anything else
NextHist(h, inputs, status) ==
    LET isInit == inputs # <<>> /\ parse_u8(inputs[1]) = 0
    IN  CASE status # "ok" -> "other"
          [] h = "fresh" -> IF isInit THEN "clean" ELSE "other"
          [] h = "clean" -> IF isInit THEN "reinit" ELSE "clean"
          [] OTHER -> h

IsClaim(inputs) == inputs # <<>> /\ parse_u8(inputs[1]) = 1

\* some address holds OOGA or BOOGA
HoldsBalance(st) ==
    \E a \in Addresses : ooga_balance_of(st, a) > 0 \/ booga_balance_of(st, a) > 0

\* the calls made so far: "fresh" none; "ledger" initialize() on fresh
\* storage, then claim and exchange calls only; "desync" the same, then an
\* initialize() while some address held a balance, then claim and exchange
\* calls only; "other" anything else
NextScript(s, inputs, st) ==
    LET op == IF inputs = <<>> THEN None ELSE parse_u8(inputs[1])
    IN  CASE s = "fresh" /\ op = 0 -> "ledger"
          [] s = "ledger" /\ op \in {1, 2} -> "ledger"
          [] s = "ledger" /\ op = 0 /\ HoldsBalance(st) -> "desync"
          [] s = "desync" /\ op \in {1, 2} -> "desync"
          [] OTHER -> "other"

NoTally == [a \in Addresses |-> [claimed |-> 0, exchanged |-> 0]]

\* one more successful claim or exchange for the address of the call
NextTally(t, inputs, status) ==
    LET op == IF inputs = <<>> THEN None ELSE parse_u8(inputs[1])
    IN  IF status = "ok" /\ op \in {1, 2} /\ Len(inputs) >= 2 /\ inputs[2] \in Addresses
        THEN [t EXCEPT ![inputs[2]] =
                 IF op = 1 THEN [@ EXCEPT !.claimed = @ + 1]
                 ELSE [@ EXCEPT !.exchanged = @ + 1]]
        ELSE t

RECURSIVE ApplyWrites(_, _)
\* w after the writes of trace, in program order: each "set" entry puts
\* its value under its key
ApplyWrites(w, trace) ==
    IF trace = <<>> THEN w
    ELSE LET e == Head(trace)
             w1 == IF e[1] = "set"
                   THEN [k \in (DOMAIN w) \cup {e[2]} |-> IF k = e[2] THEN e[3] ELSE w[k]]
                   ELSE w
         IN  ApplyWrites(w1, Tail(trace))

NoContext == [inputs |-> <<>>, incoming_alkanes |-> <<>>]
NoResult ==
    [status |-> "none", error |-> "", data |-> <<>>, alkanes |-> NoAlkanes, trace |-> <<>>,
     wrapped |-> FALSE]

Idle == result.status = "none"

\* the host sets the context and runs execute() to completion
Call(inputs, incoming_alkanes) ==
    /\ \E r \in { execute(storage, overflow_checks, inputs, incoming_alkanes) } :
          /\ context' = [inputs |-> inputs, incoming_alkanes |-> incoming_alkanes]
          /\ pre' = storage
          /\ storage' = r.storage
          /\ result' = [status |-> r.status, error |-> r.error, data |-> r.data,
                        alkanes |-> r.alkanes, trace |-> r.trace, wrapped |-> r.wrapped]
          /\ hist' = NextHist(hist, inputs, r.status)
          /\ claims' = IF IsClaim(inputs) /\ r.status = "ok" THEN claims + 1 ELSE claims
          /\ written' = ApplyWrites(written, r.trace)
          /\ tally' = NextTally(tally, inputs, r.status)
          /\ script' = NextScript(script, inputs, storage)
          /\ UNCHANGED overflow_checks

\* the caller takes the response; storage stays
Return ==
    /\ ~Idle
    /\ context' = NoContext
    /\ pre' = << >>
    /\ result' = NoResult
    /\ UNCHANGED <<storage, overflow_checks, hist, claims, written, tally, script>>

\* incoming-value buffers tried
Incoming == { <<>>, <<1>> }

\* operand lists: none, one address, one address and a spare token
OperandLists ==
    { <<>> } \cup { <<a>> : a \in Addresses } \cup { <<a, <<"z">> >> : a \in Addresses }

\* tokens after an opcode that takes no operand: none, or a spare one
SpareTokens == { <<>>, << <<"a">> >> }

Initialize ==
    /\ Idle
    /\ \E spare \in SpareTokens, i \in Incoming : Call(<< <<"0">> >> \o spare, i)
ClaimOoga ==
    /\ Idle
    /\ claims < MaxClaims
    /\ \E ops \in OperandLists, i \in Incoming : Call(<< <<"1">> >> \o ops, i)
ExchangeOogaForBooga ==
    /\ Idle
    /\ \E ops \in OperandLists, i \in Incoming : Call(<< <<"2">> >> \o ops, i)
QueryOogaBalance ==
    /\ Idle
    /\ \E ops \in OperandLists, i \in Incoming : Call(<< <<"3">> >> \o ops, i)
QueryBoogaBalance ==
    /\ Idle
    /\ \E ops \in OperandLists, i \in Incoming : Call(<< <<"4">> >> \o ops, i)
QueryTotalOoga ==
    /\ Idle
    /\ \E spare \in SpareTokens, i \in Incoming : Call(<< <<"5">> >> \o spare, i)
QueryTotalBooga ==
    /\ Idle
    /\ \E spare \in SpareTokens, i \in Incoming : Call(<< <<"6">> >> \o spare, i)

OtherOpcodes == { <<"7">>, <<"9", "9">>, <<"2", "5", "5">> }
BadOpcodes == { <<"x">>, <<"+">>, <<"-", "1">>, <<"2", "5", "6">>, <<>> }

UnrecognizedCall ==
    /\ Idle
    /\ \E t \in OtherOpcodes, ops \in { <<>>, << <<"a">> >> } : Call(<<t>> \o ops, <<>>)
MalformedCall ==
    /\ Idle
    /\ \/ Call(<<>>, <<>>)
       \/ \E t \in BadOpcodes, ops \in { <<>>, << <<"a">> >> } : Call(<<t>> \o ops, <<>>)

Init ==
    /\ storage = << >>
    /\ overflow_checks \in BOOLEAN
    /\ context = NoContext
    /\ pre = << >>
    /\ result = NoResult
    /\ hist = "fresh"
    /\ claims = 0
    /\ written = << >>
    /\ tally = NoTally
    /\ script = "fresh"

Next ==
    \/ Initialize
    \/ ClaimOoga
    \/ ExchangeOogaForBooga
    \/ QueryOogaBalance
    \/ QueryBoogaBalance
    \/ QueryTotalOoga
    \/ QueryTotalBooga
    \/ UnrecognizedCall
    \/ MalformedCall
    \/ Return

Spec == Init /\ [][Next]_vars

---------------------------------------------------------------------------
(* Reads of a store the contract did not fill itself: the store is the     *)
(* host's, and a key may be absent or hold a value of any length.  One key *)
(* at a time holds a byte string up to one byte longer than a value.       *)

StoredKeys ==
    { ooga_balance_pointer(a) : a \in Addresses }
        \cup { booga_balance_pointer(a) : a \in Addresses }
        \cup { total_ooga_pointer, total_booga_pointer }

StoredValues == UNION { [1 .. n -> Byte] : n \in 0 .. (ValueBytes + 1) }

ReadInit ==
    /\ storage \in { << >> } \cup { [k \in {key} |-> v] : key \in StoredKeys, v \in StoredValues }
    /\ overflow_checks \in BOOLEAN
    /\ context = NoContext
    /\ pre = << >>
    /\ result = NoResult
    /\ hist = "other"
    /\ claims = 0
    /\ written = << >>
    /\ tally = NoTally
    /\ script = "other"

ReadNext ==
    \/ QueryOogaBalance
    \/ QueryBoogaBalance
    \/ QueryTotalOoga
    \/ QueryTotalBooga
    \/ Return

ReadSpec == ReadInit /\ [][ReadNext]_vars

---------------------------------------------------------------------------
(* The setters called directly, as the tests do (set_ooga_balance in       *)
(* test_balance_overflow), on a store in which one key may already hold a  *)
(* byte string of any length.  Addresses include the empty one and ones    *)
(* with a "/".  A run writes one field, any number of times.               *)

EdgeAddresses == { << >>, <<"/">>, <<"a">>, <<"a", "/">> }

EdgeKeys ==
    { ooga_balance_pointer(a) : a \in EdgeAddresses }
        \cup { booga_balance_pointer(a) : a \in EdgeAddresses }
        \cup { total_ooga_pointer, total_booga_pointer }

\* what a key holds before the run: nothing at all, one byte too few, a
\* full value, one byte too many
PriorValues ==
    { [i \in 1 .. n |-> 1] : n \in {0, ValueBytes - 1, ValueBytes, ValueBytes + 1} }

StoreInit ==
    /\ storage \in { << >> } \cup { [k \in {key} |-> v] : key \in EdgeKeys, v \in PriorValues }
    /\ overflow_checks \in BOOLEAN
    /\ context = NoContext
    /\ pre = << >>
    /\ result = NoResult
    /\ hist = "other"
    /\ claims = 0
    /\ written = << >>
    /\ tally = NoTally
    /\ script = "other"

\* one setter call: setter(operands, value) puts value under key and leaves
\* the store as after.  A run writes one field, again and again; the other
\* fields hold what the store started with.
DirectSet(setter, operands, key, value, after) ==
    /\ written = << >> \/ key \in DOMAIN written
    /\ context' = [inputs |-> operands, incoming_alkanes |-> << >>]
    /\ pre' = storage
    /\ storage' = after
    /\ result' = [status |-> setter, error |-> "", data |-> << >>, alkanes |-> NoAlkanes,
                  trace |-> << Set(key, value) >>, wrapped |-> FALSE]
    /\ written' = ApplyWrites(written, << Set(key, value) >>)
    /\ UNCHANGED <<overflow_checks, hist, claims, tally, script>>

SetOogaBalance ==
    /\ Idle
    /\ \E address \in EdgeAddresses, amount \in 0 .. U128Max :
          DirectSet("set_ooga_balance", <<address>>, ooga_balance_pointer(address), amount,
                    set_ooga_balance(storage, address, amount))
SetBoogaBalance ==
    /\ Idle
    /\ \E address \in EdgeAddresses, amount \in 0 .. U128Max :
          DirectSet("set_booga_balance", <<address>>, booga_balance_pointer(address), amount,
                    set_booga_balance(storage, address, amount))
SetTotalOoga ==
    /\ Idle
    /\ \E amount \in 0 .. U128Max :
          DirectSet("set_total_ooga", << >>, total_ooga_pointer, amount,
                    set_total_ooga(storage, amount))
SetTotalBooga ==
    /\ Idle
    /\ \E amount \in 0 .. U128Max :
          DirectSet("set_total_booga", << >>, total_booga_pointer, amount,
                    set_total_booga(storage, amount))

StoreNext ==
    \/ SetOogaBalance
    \/ SetBoogaBalance
    \/ SetTotalOoga
    \/ SetTotalBooga
    \/ Return

StoreSpec == StoreInit /\ [][StoreNext]_vars

---------------------------------------------------------------------------
(* AlkaneResponder::execute, alkanes build: the inputs are numbers, the    *)
(* opcode is matched as it comes and an address is the decimal text of its *)
(* operand.  The ledger operations and the store are those above.          *)

DigitChars == << "0", "1", "2", "3", "4", "5", "6", "7", "8", "9" >>

RECURSIVE to_string(_)
\* format!("{}", n) of an unsigned number: its decimal digits, no padding
to_string(n) ==
    IF n < 10 THEN << DigitChars[n + 1] >>
    ELSE to_string(n \div 10) \o << DigitChars[(n % 10) + 1] >>

\* CallResponse::forward of alkanes_support: the incoming transfers go out
forward_alkanes(incoming_alkanes) == incoming_alkanes

dispatch_alkanes(st, checks, inputs) ==
    LET first == shift_or_err(inputs)
    IN  IF ~first.some THEN Err(st, ExhaustedMsg, <<>>)
        ELSE
          LET opcode == first.value
              operand == shift_or_err(first.rest)
              address_str == to_string(operand.value)
          IN  CASE opcode = 0 -> initialize(st)
                [] opcode = 1 ->
                     IF ~operand.some THEN Err(st, ExhaustedMsg, <<>>)
                     ELSE claim_ooga(st, checks, address_str)
                [] opcode = 2 ->
                     IF ~operand.some THEN Err(st, ExhaustedMsg, <<>>)
                     ELSE exchange_ooga_for_booga(st, checks, address_str)
                [] opcode = 3 ->
                     IF ~operand.some THEN Err(st, ExhaustedMsg, <<>>)
                     ELSE query(st, ooga_balance_pointer(address_str),
                                ooga_balance_of(st, address_str))
                [] opcode = 4 ->
                     IF ~operand.some THEN Err(st, ExhaustedMsg, <<>>)
                     ELSE query(st, booga_balance_pointer(address_str),
                                booga_balance_of(st, address_str))
                [] opcode = 5 -> query(st, total_ooga_pointer, total_ooga(st))
                [] opcode = 6 -> query(st, total_booga_pointer, total_booga(st))
                [] OTHER -> unrecognized_opcode(st)

execute_alkanes(st, checks, inputs, incoming_alkanes) ==
    Respond(dispatch_alkanes(st, checks, inputs), forward_alkanes(incoming_alkanes))

\* numeric addresses tried: one digit, two digits
NumericAddresses == { 0, 10 }

\* operand lists: none, one address, one address and a spare number
NumericOperandLists ==
    { <<>> } \cup { <<a>> : a \in NumericAddresses } \cup { <<a, 5>> : a \in NumericAddresses }

\* tokens after an opcode that takes no operand: none, or a spare one
NumericSpares == { <<>>, <<10>> }

\* opcode values outside 0..6: within a byte, and beyond it
UnassignedOpcodes == { 7, 99, U8Max, U8Max + 1 }

AlkanesInit ==
    /\ storage = << >>
    /\ overflow_checks \in BOOLEAN
    /\ context = NoContext
    /\ pre = << >>
    /\ result = NoResult
    /\ hist = "other"
    /\ claims = 0
    /\ written = << >>
    /\ tally = NoTally
    /\ script = "other"

\* the host sets the context and runs the alkanes execute() to completion
AlkanesCall(inputs, incoming_alkanes) ==
    /\ \E r \in { execute_alkanes(storage, overflow_checks, inputs, incoming_alkanes) } :
          /\ context' = [inputs |-> inputs, incoming_alkanes |-> incoming_alkanes]
          /\ pre' = storage
          /\ storage' = r.storage
          /\ result' = [status |-> r.status, error |-> r.error, data |-> r.data,
                        alkanes |-> r.alkanes, trace |-> r.trace, wrapped |-> r.wrapped]
          /\ claims' = IF inputs # <<>> /\ inputs[1] = 1 /\ r.status = "ok"
                       THEN claims + 1 ELSE claims
          /\ written' = ApplyWrites(written, r.trace)
    /\ UNCHANGED <<overflow_checks, hist, tally, script>>

AlkanesInitialize ==
    /\ Idle
    /\ \E spare \in NumericSpares, i \in Incoming : AlkanesCall(<<0>> \o spare, i)
AlkanesClaimOoga ==
    /\ Idle
    /\ claims < MaxClaims
    /\ \E ops \in NumericOperandLists, i \in Incoming : AlkanesCall(<<1>> \o ops, i)
AlkanesExchangeOogaForBooga ==
    /\ Idle
    /\ \E ops \in NumericOperandLists, i \in Incoming : AlkanesCall(<<2>> \o ops, i)
AlkanesQueryOogaBalance ==
    /\ Idle
    /\ \E ops \in NumericOperandLists, i \in Incoming : AlkanesCall(<<3>> \o ops, i)
AlkanesQueryBoogaBalance ==
    /\ Idle
    /\ \E ops \in NumericOperandLists, i \in Incoming : AlkanesCall(<<4>> \o ops, i)
AlkanesQueryTotalOoga ==
    /\ Idle
    /\ \E spare \in NumericSpares, i \in Incoming : AlkanesCall(<<5>> \o spare, i)
AlkanesQueryTotalBooga ==
    /\ Idle
    /\ \E spare \in NumericSpares, i \in Incoming : AlkanesCall(<<6>> \o spare, i)
AlkanesUnrecognizedCall ==
    /\ Idle
    /\ \E n \in UnassignedOpcodes, ops \in { <<>>, <<10>> } : AlkanesCall(<<n>> \o ops, <<>>)
AlkanesEmptyCall ==
    /\ Idle
    /\ AlkanesCall(<<>>, <<>>)

AlkanesNext ==
    \/ AlkanesInitialize
    \/ AlkanesClaimOoga
    \/ AlkanesExchangeOogaForBooga
    \/ AlkanesQueryOogaBalance
    \/ AlkanesQueryBoogaBalance
    \/ AlkanesQueryTotalOoga
    \/ AlkanesQueryTotalBooga
    \/ AlkanesUnrecognizedCall
    \/ AlkanesEmptyCall
    \/ Return

AlkanesSpec == AlkanesInit /\ [][AlkanesNext]_vars

---------------------------------------------------------------------------
(* Reading the record of the last call *)

LastOpcode == IF context.inputs = <<>> THEN None ELSE parse_u8(context.inputs[1])
HasOperand == Len(context.inputs) >= 2
LastAddress == context.inputs[2]

\* the last call was opcode op with its address operand present
CalledWith(op) == ~Idle /\ LastOpcode = op /\ HasOperand
Succeeded == result.status = "ok"
Failed == result.status \in {"err", "panic"}

RECURSIVE SumOver(_, _, _)
\* the sum of Balance(st, a) over the addresses in S
SumOver(Balance(_, _), st, S) ==
    IF S = {} THEN 0
    ELSE LET a == CHOOSE x \in S : TRUE
         IN  Balance(st, a) + SumOver(Balance, st, S \ {a})

SumOoga(st) == SumOver(ooga_balance_of, st, Addresses)
SumBooga(st) == SumOver(booga_balance_of, st, Addresses)

---------------------------------------------------------------------------
(* C1 *)

\* C1 as stated: after every sequence of successful calls that begins with
\* initialize(), later initialize() calls included, each total equals the
\* sum of the per-address balances.
C1_TotalsEqualSums ==
    hist \in {"clean", "reinit"} =>
        /\ total_ooga(storage) = SumOoga(storage)
        /\ total_booga(storage) = SumBooga(storage)

\* C1 amended: after every sequence of successful calls that begins with
\* initialize() on empty storage and holds no later initialize(), each total
\* equals the sum of the per-address balances modulo 2^128.
C1_TotalsMatchWithoutReinit ==
    hist = "clean" =>
        /\ total_ooga(storage) = SumOoga(storage) % Modulus
        /\ total_booga(storage) = SumBooga(storage) % Modulus

C1_Witness ==
    /\ hist = "clean"
    /\ CalledWith(2) /\ Succeeded
    /\ ooga_balance_of(storage, <<"a">>) >= 1
    /\ ooga_balance_of(storage, <<"b">>) >= 1
    /\ SumBooga(storage) >= 1

---------------------------------------------------------------------------
(* C2 *)

\* C2: a call that fails, with whatever error, leaves every storage value
\* as it was before the call.
C2_FailedCallLeavesStorage == Failed => storage = pre

---------------------------------------------------------------------------
(* C3 *)

\* no storage read follows a storage write
ReadsBeforeWrites(trace) ==
    \A i, j \in DOMAIN trace : (i < j /\ trace[i][1] = "set") => trace[j][1] # "get"

\* each of the four fields of an exchange for address a differs from before
AllFourApplied(a) ==
    /\ ooga_balance_of(storage, a) # ooga_balance_of(pre, a)
    /\ booga_balance_of(storage, a) # booga_balance_of(pre, a)
    /\ total_ooga(storage) # total_ooga(pre)
    /\ total_booga(storage) # total_booga(pre)

\* C3: exchange_ooga_for_booga(address) makes all its storage reads before
\* its first write, and wherever the call stops either all four updates
\* are applied or none is.
C3_ExchangeAtomic ==
    CalledWith(2) =>
        /\ ReadsBeforeWrites(result.trace)
        /\ storage = pre \/ AllFourApplied(LastAddress)

\* the second half of C3 alone: all four updates or none
C3_AllOrNothing == CalledWith(2) => (storage = pre \/ AllFourApplied(LastAddress))

---------------------------------------------------------------------------
(* C4 *)

\* C4: a successful exchange_ooga_for_booga(a) lowers ooga_balance(a) and
\* total_ooga by exactly 1 and raises booga_balance(a) and total_booga by
\* exactly 1.
C4_ExchangeMovesExactlyOne ==
    (CalledWith(2) /\ Succeeded) =>
        /\ ooga_balance_of(storage, LastAddress) = ooga_balance_of(pre, LastAddress) - 1
        /\ booga_balance_of(storage, LastAddress) = booga_balance_of(pre, LastAddress) + 1
        /\ total_ooga(storage) = total_ooga(pre) - 1
        /\ total_booga(storage) = total_booga(pre) + 1

---------------------------------------------------------------------------
(* C5 *)

\* C5: claim_ooga(address) raises ooga_balance(address) by exactly 1 and
\* total_ooga by exactly 1 from every balance below the maximum, whatever
\* total_ooga is.
C5_ClaimAddsExactlyOne ==
    (CalledWith(1) /\ ooga_balance_of(pre, LastAddress) < U128Max) =>
        /\ ooga_balance_of(storage, LastAddress) = ooga_balance_of(pre, LastAddress) + 1
        /\ total_ooga(storage) = total_ooga(pre) + 1

---------------------------------------------------------------------------
(* C6 *)

\* C6: no call ever computes a subtraction below 0 or an addition above
\* the maximum: none aborts on overflow and none wraps around.
C6_NoWrapAround == result.status # "panic" /\ ~result.wrapped

---------------------------------------------------------------------------
(* C7 *)

\* C7: exchange_ooga_for_booga(address) succeeds whenever
\* ooga_balance(address) >= 1.
C7_ExchangeSucceedsWithBalance ==
    (CalledWith(2) /\ ooga_balance_of(pre, LastAddress) >= 1) => Succeeded

---------------------------------------------------------------------------
(* C8 *)

\* C8: exchange_ooga_for_booga(address) with ooga_balance(address) = 0
\* fails with InsufficientBalance and changes nothing in storage.
C8_ExchangeAtZeroFails ==
    (CalledWith(2) /\ ooga_balance_of(pre, LastAddress) = 0) =>
        /\ result.status = "err"
        /\ result.error = "insufficient OOGA balance"
        /\ storage = pre

\* an exchange refused for an address that had exchanged all it claimed,
\* while the other address still held OOGA
C8_Witness ==
    /\ CalledWith(2)
    /\ ooga_balance_of(pre, LastAddress) = 0
    /\ booga_balance_of(pre, LastAddress) >= 1
    /\ SumOoga(pre) >= 1
    /\ result.error = "insufficient OOGA balance"

---------------------------------------------------------------------------
(* C9 *)

\* C9: claim_ooga(address) at the maximum balance fails with
\* BalanceOverflow and leaves that balance and total_ooga as they were; a
\* claim from the maximum minus 1 succeeds and reaches the maximum.
C9_ClaimAtTheMaximum ==
    /\ (CalledWith(1) /\ ooga_balance_of(pre, LastAddress) = U128Max) =>
           /\ result.status = "err"
           /\ result.error = "balance overflow"
           /\ ooga_balance_of(storage, LastAddress) = U128Max
           /\ total_ooga(storage) = total_ooga(pre)
    /\ (CalledWith(1) /\ ooga_balance_of(pre, LastAddress) = U128Max - 1) =>
           /\ Succeeded
           /\ ooga_balance_of(storage, LastAddress) = U128Max

\* the first half of C9 alone
C9_ClaimAtMaxFails ==
    (CalledWith(1) /\ ooga_balance_of(pre, LastAddress) = U128Max) =>
        /\ result.status = "err"
        /\ result.error = "balance overflow"
        /\ storage = pre

---------------------------------------------------------------------------
(* C10 *)

\* C10: a call to opcode 2 never changes total_ooga + total_booga, whether
\* it succeeds or fails.
C10_ExchangeConservesTotals ==
    (~Idle /\ LastOpcode = 2) =>
        total_ooga(storage) + total_booga(storage) = total_ooga(pre) + total_booga(pre)

---------------------------------------------------------------------------
(* C11 *)

\* every key outside keys is stored as it was before the call
SameExcept(keys) ==
    \A k \in ((DOMAIN pre) \cup (DOMAIN storage)) \ keys :
        k \in DOMAIN pre /\ k \in DOMAIN storage /\ storage[k] = pre[k]

\* every address of S has the OOGA and BOOGA balance it had before the call
BalancesKept(S) ==
    \A a \in S :
        /\ ooga_balance_of(storage, a) = ooga_balance_of(pre, a)
        /\ booga_balance_of(storage, a) = booga_balance_of(pre, a)

\* C11: initialize() (opcode 0) always succeeds, sets total_ooga and
\* total_booga to 0 and leaves the OOGA and BOOGA balance of every address
\* as it was.
C11_InitializeResetsTotals ==
    (~Idle /\ LastOpcode = 0) =>
        /\ Succeeded
        /\ total_ooga(storage) = 0
        /\ total_booga(storage) = 0
        /\ BalancesKept(Addresses)
        /\ SameExcept({total_ooga_pointer, total_booga_pointer})

\* initialize() called on a ledger with both totals and balances above 0
C11_Witness ==
    /\ ~Idle /\ LastOpcode = 0 /\ Succeeded
    /\ total_ooga(pre) >= 1
    /\ total_booga(pre) >= 1
    /\ ooga_balance_of(pre, <<"a">>) >= 1
    /\ booga_balance_of(pre, <<"b">>) >= 1

---------------------------------------------------------------------------
(* C12 *)

\* the first token of the last call, as the caller wrote it
FirstToken == context.inputs[1]
HasToken == ~Idle /\ context.inputs # <<>>

\* C12: every call whose opcode is a number other than 0..6 fails with
\* UnrecognizedOpcode whatever its operand list is, reads no operand (an
\* empty operand list gives the same error, not MissingOperand), accesses
\* no storage and leaves storage as it was.
C12_UnrecognizedOpcodeFails ==
    (HasToken /\ FirstToken \in OtherOpcodes) =>
        /\ result.status = "err"
        /\ result.error = "unrecognized opcode"
        /\ result.trace = <<>>
        /\ storage = pre

\* opcode 99 with no operand at all, on a ledger that holds balances
C12_Witness ==
    /\ ~Idle
    /\ context.inputs = << <<"9", "9">> >>
    /\ result.error = "unrecognized opcode"
    /\ ooga_balance_of(pre, <<"a">>) >= 1
    /\ total_booga(pre) >= 1

---------------------------------------------------------------------------
(* C13 *)

\* the opcodes that take an address operand, as tokens
OperandOpcodes == { <<"1">>, <<"2">>, <<"3">>, <<"4">> }

\* the last call had no input at all, or an operand opcode and nothing else
OperandMissing ==
    /\ ~Idle
    /\ \/ context.inputs = <<>>
       \/ Len(context.inputs) = 1 /\ FirstToken \in OperandOpcodes

\* C13: a call with opcode 1, 2, 3 or 4 and no operand after the opcode,
\* and a call with an empty input sequence, fails with MissingOperand
\* before any storage access, so storage is unchanged.
C13_MissingOperandFails ==
    OperandMissing =>
        /\ result.status = "err"
        /\ result.error = ExhaustedMsg
        /\ result.trace = <<>>
        /\ storage = pre

\* an exchange without its operand on a ledger where an exchange with the
\* operand would have gone through
C13_Witness ==
    /\ ~Idle
    /\ context.inputs = << <<"2">> >>
    /\ result.error = ExhaustedMsg
    /\ ooga_balance_of(pre, <<"a">>) >= 1
    /\ total_ooga(pre) >= 1

\* the empty input sequence refused
C13_WitnessEmpty ==
    /\ ~Idle
    /\ context.inputs = <<>>
    /\ result.error = ExhaustedMsg

---------------------------------------------------------------------------
(* C14 *)

\* C14: a call whose first token cannot be parsed as the opcode's numeric
\* type fails with InvalidOpcodeFormat; the check comes before the opcode
\* is matched (no operand is asked for, none is missed) and before any
\* storage access.
C14_InvalidOpcodeFormatFails ==
    (HasToken /\ FirstToken \in BadOpcodes) =>
        /\ result.status = "err"
        /\ result.error = "invalid opcode format"
        /\ result.trace = <<>>
        /\ storage = pre

\* 256 is a number but no u8: refused as malformed, operand or not, on a
\* ledger that holds balances
C14_Witness ==
    /\ ~Idle
    /\ context.inputs = << <<"2", "5", "6">> >>
    /\ result.error = "invalid opcode format"
    /\ ooga_balance_of(pre, <<"a">>) >= 1
    /\ total_ooga(pre) >= 1

---------------------------------------------------------------------------
(* C15 *)

\* the last call was a query with the operands it requires
QueryCalled ==
    /\ ~Idle
    /\ \/ LastOpcode \in {3, 4} /\ HasOperand
       \/ LastOpcode \in {5, 6}

\* C15: the query opcodes 3, 4, 5 and 6 are pure reads: given their
\* required operands they never fail, they make no storage write, and they
\* leave every stored value (all balances, both totals) and the set of
\* stored keys as they were.
C15_QueriesArePureReads ==
    QueryCalled =>
        /\ Succeeded
        /\ \A i \in DOMAIN result.trace : result.trace[i][1] = "get"
        /\ storage = pre

\* a balance query for an address whose key was never written, on a ledger
\* where another address holds both tokens
C15_Witness ==
    /\ CalledWith(4) /\ Succeeded
    /\ booga_balance_pointer(LastAddress) \notin DOMAIN pre
    /\ total_ooga(pre) >= 1
    /\ total_booga(pre) >= 1

---------------------------------------------------------------------------
(* C16 *)

RECURSIVE WeightedSum(_, _)
\* bytes[i] * ByteRadix^(i-1) summed over the positions from i on
WeightedSum(bytes, i) ==
    IF i > Len(bytes) THEN 0
    ELSE bytes[i] * Pow(ByteRadix, i - 1) + WeightedSum(bytes, i + 1)

\* data is the fixed-width little-endian encoding of value: the full
\* width, every element a byte, the least significant byte first
IsLittleEndianOf(data, value) ==
    /\ Len(data) = ValueBytes
    /\ \A i \in 1 .. Len(data) : data[i] \in Byte
    /\ WeightedSum(data, 1) = value

\* C16: on success the response payload is empty for the mutating opcodes
\* 0, 1 and 2, and is exactly the fixed-width little-endian encoding of the
\* queried value for opcode 3 (OOGA balance of the operand address), 4
\* (BOOGA balance of the operand address), 5 (total_ooga) and 6
\* (total_booga).
C16_ResponsePayload ==
    (~Idle /\ Succeeded) =>
        /\ LastOpcode \in {0, 1, 2} => result.data = <<>>
        /\ LastOpcode = 3 =>
               IsLittleEndianOf(result.data, ooga_balance_of(pre, LastAddress))
        /\ LastOpcode = 4 =>
               IsLittleEndianOf(result.data, booga_balance_of(pre, LastAddress))
        /\ LastOpcode = 5 => IsLittleEndianOf(result.data, total_ooga(pre))
        /\ LastOpcode = 6 => IsLittleEndianOf(result.data, total_booga(pre))

\* a balance query answered with a payload whose first byte is 0 and whose
\* second byte is 1: the byte order shows
C16_Witness ==
    /\ CalledWith(3) /\ Succeeded
    /\ ooga_balance_of(pre, LastAddress) = ByteRadix
    /\ result.data[1] = 0
    /\ result.data[2] = 1
    /\ total_booga(pre) >= 1

---------------------------------------------------------------------------
(* C17 *)

\* C17: the response of every successful call carries the call's
\* incoming-value buffer unchanged: whatever the buffer holds, the
\* forwarded buffer of the response equals it.
C17_ForwardsIncoming ==
    (~Idle /\ Succeeded) => result.alkanes[1] = context.incoming_alkanes

---------------------------------------------------------------------------
(* C18 *)

\* the key the last query read
QueriedKey ==
    CASE LastOpcode = 3 -> ooga_balance_pointer(LastAddress)
      [] LastOpcode = 4 -> booga_balance_pointer(LastAddress)
      [] LastOpcode = 5 -> total_ooga_pointer
      [] LastOpcode = 6 -> total_booga_pointer

\* the value the calls made so far wrote last under key, 0 if none wrote it
LastWritten(key) == IF key \in DOMAIN written THEN written[key] ELSE 0

\* C18: a query returns the value produced by all writes of the calls made
\* before it: after any sequence of calls, opcode 3/4 for an address and
\* opcode 5/6 return exactly the value the last write to that balance or
\* total put in storage, never an older one.
C18_QueryReturnsLastWrite ==
    QueryCalled =>
        /\ Succeeded
        /\ IsLittleEndianOf(result.data, LastWritten(QueriedKey))

\* a balance that went up, down and up again, read back as 1
C18_Witness ==
    /\ CalledWith(3) /\ Succeeded
    /\ LastWritten(ooga_balance_pointer(LastAddress)) = 1
    /\ LastWritten(booga_balance_pointer(LastAddress)) >= 1
    /\ LastWritten(total_ooga_pointer) >= 2
    /\ result.data[1] = 1

---------------------------------------------------------------------------
(* C19, over ReadSpec *)

\* key is absent from st or holds fewer bytes than a value has
AbsentOrShort(st, key) == key \notin DOMAIN st \/ Len(st[key]) < ValueBytes

ZeroPayload == [i \in 1 .. ValueBytes |-> 0]

\* C19: a balance or total read returns 0 when its key is absent or when
\* the stored value is shorter than the fixed width, and never fails; an
\* address that was never written reads as 0 for both OOGA and BOOGA.
C19_AbsentOrShortReadsZero ==
    QueryCalled =>
        /\ Succeeded
        /\ AbsentOrShort(pre, QueriedKey) => result.data = ZeroPayload

\* a stored value one byte short whose byte is not 0, read as 0
C19_Witness ==
    /\ CalledWith(3) /\ Succeeded
    /\ QueriedKey \in DOMAIN pre
    /\ Len(pre[QueriedKey]) = ValueBytes - 1
    /\ pre[QueriedKey][1] = 1
    /\ result.data = ZeroPayload

---------------------------------------------------------------------------
(* C20 *)

\* the keys claim_ooga(a) may write, and those exchange_ooga_for_booga(a) may
ClaimKeys(a) == { ooga_balance_pointer(a), total_ooga_pointer }
ExchangeKeys(a) ==
    { ooga_balance_pointer(a), booga_balance_pointer(a),
      total_ooga_pointer, total_booga_pointer }

\* C20: claim_ooga(a) and exchange_ooga_for_booga(a), however they end,
\* change only the records of address a and the totals: the OOGA and BOOGA
\* balance of every other address is as before, and claim_ooga changes no
\* BOOGA balance and not total_booga.
C20_OnlyOwnRecordsChange ==
    /\ CalledWith(1) =>
           /\ BalancesKept(Addresses \ {LastAddress})
           /\ \A a \in Addresses : booga_balance_of(storage, a) = booga_balance_of(pre, a)
           /\ total_booga(storage) = total_booga(pre)
           /\ SameExcept(ClaimKeys(LastAddress))
    /\ CalledWith(2) =>
           /\ BalancesKept(Addresses \ {LastAddress})
           /\ SameExcept(ExchangeKeys(LastAddress))

\* an exchange for one address while the other holds OOGA and BOOGA
C20_Witness ==
    /\ CalledWith(2) /\ Succeeded
    /\ \E b \in Addresses \ {LastAddress} :
          /\ ooga_balance_of(pre, b) >= 1
          /\ booga_balance_of(pre, b) >= 1
    /\ booga_balance_of(storage, LastAddress) # booga_balance_of(pre, LastAddress)

\* a claim for one address while the other holds OOGA and BOOGA
C20_WitnessClaim ==
    /\ CalledWith(1) /\ Succeeded
    /\ \E b \in Addresses \ {LastAddress} :
          /\ ooga_balance_of(pre, b) >= 1
          /\ booga_balance_of(pre, b) >= 1
    /\ total_booga(pre) >= 1

---------------------------------------------------------------------------
(* C21 *)

\* C21: starting from fresh storage and initialize(), after any sequence of
\* claim and exchange calls, for every address a: booga_balance(a) equals
\* the number of successful exchanges for a, and ooga_balance(a) equals the
\* number of successful claims for a minus the number of successful
\* exchanges for a.
C21_BalancesCountCalls ==
    script = "ledger" =>
        \A a \in Addresses :
            /\ booga_balance_of(storage, a) = tally[a].exchanged
            /\ ooga_balance_of(storage, a) = tally[a].claimed - tally[a].exchanged

\* the part of C21 in brackets: no address has more successful exchanges
\* than successful claims
C21_ExchangesWithinClaims ==
    \A a \in Addresses : tally[a].exchanged <= tally[a].claimed

---------------------------------------------------------------------------
(* C22 *)

\* the last call was a claim or an exchange that the ledger rules allow: a
\* claim below the maximum balance, an exchange with at least 1 OOGA
LedgerCallAllowed ==
    \/ CalledWith(1) /\ ooga_balance_of(pre, LastAddress) < U128Max
    \/ CalledWith(2) /\ ooga_balance_of(pre, LastAddress) >= 1

TotalsEqualSums(st) ==
    /\ total_ooga(st) = SumOoga(st)
    /\ total_booga(st) = SumBooga(st)

\* C22: if initialize() is invoked after accounts already hold non-zero
\* balances, the totals differ from the sums only until new claim/exchange
\* calls are made: the claim and exchange calls that follow succeed and
\* bring the totals back to the sums of the per-address balances.
C22_TotalsRecoverAfterReinit ==
    (script = "desync" /\ LedgerCallAllowed) =>
        /\ Succeeded
        /\ TotalsEqualSums(storage)

\* by how much a total is off its sum, modulo 2^128
OogaOffset(st) == (total_ooga(st) - SumOoga(st) + Cardinality(Addresses) * Modulus) % Modulus
BoogaOffset(st) == (total_booga(st) - SumBooga(st) + Cardinality(Addresses) * Modulus) % Modulus

\* what the code does instead: a successful claim or exchange leaves both
\* totals exactly as far off their sums as they were
C22_OffsetsKept ==
    ((CalledWith(1) \/ CalledWith(2)) /\ Succeeded) =>
        /\ OogaOffset(storage) = OogaOffset(pre)
        /\ BoogaOffset(storage) = BoogaOffset(pre)

---------------------------------------------------------------------------
(* C24 *)

\* the five errors of the taxonomy, as the messages the code returns:
\* MissingOperand, InvalidOpcodeFormat, UnrecognizedOpcode, BalanceOverflow,
\* InsufficientBalance
TypedErrors ==
    { ExhaustedMsg, "invalid opcode format", "unrecognized opcode", "balance overflow",
      "insufficient OOGA balance" }

\* C24: every call ends in exactly one of these outcomes: a success
\* response, or one of the five typed errors; no reachable state and input
\* makes a call stop in any other way, such as an arithmetic overflow or
\* underflow abort inside claim_ooga or exchange_ooga_for_booga.
C24_OnlyTypedOutcomes ==
    ~Idle =>
        \/ result.status = "ok"
        \/ result.status = "err" /\ result.error \in TypedErrors

\* what holds of the calls that do return: the error is one of the five
C24_ReturnedErrorsAreTyped == result.status = "err" => result.error \in TypedErrors

---------------------------------------------------------------------------
(* C25, over StoreSpec *)

\* the last step was a direct call of a setter
DirectWrite == result.status \in
    { "set_ooga_balance", "set_booga_balance", "set_total_ooga", "set_total_booga" }

WrittenKey == result.trace[1][2]
WrittenValue == result.trace[1][3]

\* the getter that pairs with the setter just called, applied to st
ReadBack(st) ==
    CASE result.status = "set_ooga_balance" -> ooga_balance_of(st, context.inputs[1])
      [] result.status = "set_booga_balance" -> booga_balance_of(st, context.inputs[1])
      [] result.status = "set_total_ooga" -> total_ooga(st)
      [] result.status = "set_total_booga" -> total_booga(st)

\* C25: a write followed by a read of the same field returns the written
\* value: for every kind, address and value v, set_balance then get_balance
\* yields v and set_total then get_total yields v; a second write fully
\* replaces whatever the field held, and every write stores exactly the
\* fixed number of bytes.
C25_WriteThenRead ==
    DirectWrite =>
        /\ ReadBack(storage) = WrittenValue
        /\ WrittenKey \in DOMAIN storage
        /\ Len(storage[WrittenKey]) = ValueBytes

\* a balance of 1 written over a stored value that was one byte too long
\* and read as the maximum
C25_Witness ==
    /\ result.status = "set_booga_balance"
    /\ WrittenKey \in DOMAIN pre
    /\ Len(pre[WrittenKey]) = ValueBytes + 1
    /\ ReadBack(pre) = U128Max
    /\ WrittenValue = 1

\* a second setter call on the same field with another value
C25_WitnessSecondWrite ==
    /\ result.status = "set_total_ooga"
    /\ WrittenKey \in DOMAIN pre
    /\ ReadBack(pre) = 1
    /\ pre[WrittenKey] = to_le_bytes(1)
    /\ WrittenValue = U128Max - 1

---------------------------------------------------------------------------
(* C26, over StoreSpec *)

\* the ledger fields: a balance of either kind per address, and the two totals
Fields ==
    ({"ooga", "booga"} \X EdgeAddresses) \cup { <<"total_ooga">>, <<"total_booga">> }

KeyOf(f) ==
    CASE f[1] = "ooga" -> ooga_balance_pointer(f[2])
      [] f[1] = "booga" -> booga_balance_pointer(f[2])
      [] f[1] = "total_ooga" -> total_ooga_pointer
      [] f[1] = "total_booga" -> total_booga_pointer

ReadField(st, f) ==
    CASE f[1] = "ooga" -> ooga_balance_of(st, f[2])
      [] f[1] = "booga" -> booga_balance_of(st, f[2])
      [] f[1] = "total_ooga" -> total_ooga(st)
      [] f[1] = "total_booga" -> total_booga(st)

\* the field the setter just called is about
WrittenField ==
    CASE result.status = "set_ooga_balance" -> <<"ooga", context.inputs[1]>>
      [] result.status = "set_booga_balance" -> <<"booga", context.inputs[1]>>
      [] result.status = "set_total_ooga" -> <<"total_ooga">>
      [] result.status = "set_total_booga" -> <<"total_booga">>

\* C26: the storage-key scheme is injective: for all addresses, the empty
\* one and those containing '/' included, the keys of (OOGA, a), (BOOGA, b),
\* total_ooga and total_booga are pairwise distinct unless they denote the
\* same field, so a write to one ledger field never changes the value read
\* for another field.
C26_KeysInjective ==
    DirectWrite =>
        \A f \in Fields \ {WrittenField} :
            /\ KeyOf(f) # WrittenKey
            /\ ReadField(storage, f) = ReadField(pre, f)

\* the BOOGA balance of the empty address is written while its OOGA balance
\* is at the maximum, and the OOGA balance is still there afterwards
C26_Witness ==
    /\ result.status = "set_booga_balance"
    /\ context.inputs = << << >> >>
    /\ WrittenValue = 1
    /\ ooga_balance_of(pre, << >>) = U128Max
    /\ ooga_balance_of(storage, << >>) = U128Max
    /\ booga_balance_of(storage, << >>) = 1

\* the OOGA balance of "a/" is written while that of "a" holds a value
C26_WitnessSlash ==
    /\ result.status = "set_ooga_balance"
    /\ context.inputs = << <<"a", "/">> >>
    /\ WrittenValue = 1
    /\ ooga_balance_of(pre, <<"a">>) = U128Max
    /\ ooga_balance_of(storage, <<"a">>) = U128Max

---------------------------------------------------------------------------
(* C27 *)

\* the last call was initialize()
InitializeCalled == ~Idle /\ LastOpcode = 0

\* C27: no dispatched call ever decreases a BOOGA balance: across every
\* call booga_balance(a) is at least what it was for every address a, and
\* total_booga is at least what it was across every call other than
\* initialize().
C27_BoogaNeverDecreases ==
    /\ \A a \in Addresses : booga_balance_of(storage, a) >= booga_balance_of(pre, a)
    /\ ~InitializeCalled => total_booga(storage) >= total_booga(pre)

\* C27 in the build that checks arithmetic: no call lowers a BOOGA balance
\* or, initialize() aside, total_booga
C27_NoDecreaseWhenChecked ==
    overflow_checks =>
        /\ \A a \in Addresses : booga_balance_of(storage, a) >= booga_balance_of(pre, a)
        /\ ~InitializeCalled => total_booga(storage) >= total_booga(pre)

---------------------------------------------------------------------------
(* C28 *)

NoOperandOpcodes == { <<"0">>, <<"5">>, <<"6">> }

\* how many tokens the opcode of the last call requires, itself included
RequiredTokens == IF FirstToken \in OperandOpcodes THEN 2 ELSE 1

\* the last call had a valid input sequence followed by more tokens
ExtraTokens ==
    /\ ~Idle
    /\ HasToken
    /\ FirstToken \in OperandOpcodes \cup NoOperandOpcodes
    /\ Len(context.inputs) > RequiredTokens

\* what the opcode of the last call does with the first operand alone
HandlerOutcome ==
    CASE FirstToken = <<"0">> -> initialize(pre)
      [] FirstToken = <<"1">> -> claim_ooga(pre, overflow_checks, context.inputs[2])
      [] FirstToken = <<"2">> ->
             exchange_ooga_for_booga(pre, overflow_checks, context.inputs[2])
      [] FirstToken = <<"3">> ->
             query(pre, ooga_balance_pointer(context.inputs[2]),
                   ooga_balance_of(pre, context.inputs[2]))
      [] FirstToken = <<"4">> ->
             query(pre, booga_balance_pointer(context.inputs[2]),
                   booga_balance_of(pre, context.inputs[2]))
      [] FirstToken = <<"5">> -> query(pre, total_ooga_pointer, total_ooga(pre))
      [] FirstToken = <<"6">> -> query(pre, total_booga_pointer, total_booga(pre))

\* the last call ended as outcome r does
EndedAs(r) ==
    /\ result.status = r.status
    /\ result.error = r.error
    /\ result.data = r.data
    /\ result.trace = r.trace
    /\ storage = r.storage

\* C28: tokens beyond the operands an opcode requires are ignored: the
\* outcome and storage effect of a call depend only on the opcode and, for
\* opcodes 1-4, the first operand; appending extra tokens to a valid input
\* sequence changes neither the result nor the resulting storage.
C28_ExtraTokensIgnored ==
    ExtraTokens =>
        /\ EndedAs(HandlerOutcome)
        /\ EndedAs(execute(pre, overflow_checks,
                           SubSeq(context.inputs, 1, RequiredTokens),
                           context.incoming_alkanes))

\* an exchange with a spare token after the address went through
C28_Witness ==
    /\ ExtraTokens
    /\ FirstToken = <<"2">>
    /\ Succeeded
    /\ booga_balance_of(storage, LastAddress) = booga_balance_of(pre, LastAddress) + 1

\* a total query with a spare token returned a total above 0
C28_WitnessNoOperand ==
    /\ ExtraTokens
    /\ FirstToken = <<"5">>
    /\ Succeeded
    /\ total_ooga(pre) > 0
    /\ result.data = to_le_bytes(total_ooga(pre))

---------------------------------------------------------------------------
(* C29, over AlkanesSpec *)

\* the input of the test build that stands for a numeric input: every
\* number as its decimal text
AsTokens(inputs) == [i \in DOMAIN inputs |-> to_string(inputs[i])]

\* the last call, made to the alkanes build, ended with the outcome class,
\* payload and storage that outcome r of the test build has
SameOutcome(r) ==
    /\ result.status = r.status
    /\ result.error = r.error
    /\ result.data = r.data
    /\ storage = r.storage

\* what the test build does on the storage and the input of the last call
TestBuildOutcome ==
    execute(pre, overflow_checks, AsTokens(context.inputs), context.incoming_alkanes)

\* C29: the production dispatcher (alkanes feature, numeric inputs) and the
\* test-mode dispatchers (string inputs parsed as an 8-bit opcode) are
\* equivalent: for every opcode value and operand list, run side by side on
\* equal storage they give the same outcome class (success or the same
\* error), the same payload and the same resulting storage.
C29_DispatchersEquivalent ==
    ~Idle => SameOutcome(TestBuildOutcome)

\* C29 for the opcode values a byte holds, and for an empty input
C29_EquivalentWithinByte ==
    (~Idle /\ (context.inputs = <<>> \/ context.inputs[1] <= U8Max)) =>
        SameOutcome(TestBuildOutcome)

\* the two builds on opcode value 256: unrecognized in one, malformed in
\* the other
C29_BeyondByte ==
    /\ ~Idle
    /\ context.inputs # <<>>
    /\ context.inputs[1] = U8Max + 1
    /\ result.error = "unrecognized opcode"
    /\ TestBuildOutcome.error = "invalid opcode format"

====
